---- MODULE Spec2Model ----
(* Authentication backend of robsyc/backend: api/routes/auth/services.py    *)
(* (token helpers, current-user resolution) and api/routes/auth/auth.py     *)
(* (the /register, /verify, /token, /refresh and /me handlers).             *)
(* Time is counted in whole seconds, the resolution of the JWT exp claim.   *)
EXTENDS Integers, Sequences, FiniteSets, TLC

VARIABLES
    environ,    \* os.environ as read at import time
    utcoffset,  \* offset of the server's local wall clock from UTC, in seconds
    now,        \* UTC time in seconds
    ticks,      \* number of clock advances so far
    users,      \* the User nodes of the store
    issued,     \* every token handed out so far, with its issuance time
    outbox,     \* the mails the last request gave to FastMail, in order
    resp,       \* the last request and its response
    inflight    \* the register requests suspended at an await, by request

vars == <<environ, utcoffset, now, ticks, users, issued, outbox, resp, inflight>>

----------------------------------------------------------------------------
(* Bounds of the model *)

MaxTicks == 1
MaxTokens == 4
MaxInflight == 2
TzHour == 3600

(* Input domains *)

None == "None"
Usernames == {"alice", "bob"}
Emails == {"a@x.com", "b@y.com"}
Passwords == {"pw1", "pw2"}
RegistrationPasswords == {"pw1"}
UtcOffsets == {0 - TzHour, 0}
Environs ==
    [ALGORITHM : {None, "HS256"},
     ACCESS_TOKEN_EXPIRE_MINUTES : {None, "30"},
     REFRESH_TOKEN_EXPIRE_DAYS : {None, "7"}]

----------------------------------------------------------------------------
(* Module-level configuration, services.py:24-37 and auth.py:22-25 *)

\* int(s) for the strings the environment holds
int(s) ==
    CASE s = "30" -> 30
      [] s = "7" -> 7
      [] OTHER -> 0

DefaultAccessMinutes == 30
DefaultRefreshDays == 7
VerificationHours == 24
PasswordResetMinutes == 15

SECRET_KEY == "secret"

\* services.py:28  os.environ.get("ALGORITHM") or "HS256"
services_ALGORITHM ==
    IF environ.ALGORITHM = None THEN "HS256" ELSE environ.ALGORITHM

\* auth.py:25  os.getenv("ALGORITHM"), no default
auth_ALGORITHM == environ.ALGORITHM

\* services.py:29  int(os.environ.get(...)) or 30
ACCESS_TOKEN_EXPIRE_MINUTES ==
    IF int(environ.ACCESS_TOKEN_EXPIRE_MINUTES) = 0
    THEN DefaultAccessMinutes
    ELSE int(environ.ACCESS_TOKEN_EXPIRE_MINUTES)

\* services.py:30  int(os.environ.get(...)) or 7
REFRESH_TOKEN_EXPIRE_DAYS ==
    IF int(environ.REFRESH_TOKEN_EXPIRE_DAYS) = 0
    THEN DefaultRefreshDays
    ELSE int(environ.REFRESH_TOKEN_EXPIRE_DAYS)

\* The import of services.py completes: int(None) raises TypeError, so both
\* lifetime settings must be present (the secret and the mail account are
\* always set here).
Started ==
    /\ environ.ACCESS_TOKEN_EXPIRE_MINUTES # None
    /\ environ.REFRESH_TOKEN_EXPIRE_DAYS # None

\* datetime.timedelta in seconds
timedelta_minutes(m) == m * 60
timedelta_hours(h) == h * 3600
timedelta_days(d) == d * 86400

----------------------------------------------------------------------------
(* Credential hasher, services.py:54-60 *)

get_password_hash(password) == [scheme |-> "bcrypt", of |-> password]

verify_password(plain_password, hashed_password) ==
    hashed_password.scheme = "bcrypt" /\ hashed_password.of = plain_password

----------------------------------------------------------------------------
(* Token codec: jose.jwt as services.py and auth.py call it *)

\* datetime.now(): the naive local wall clock
datetime_now == now + utcoffset

\* jwt.encode: the claims signed with the key under the algorithm; a naive
\* datetime exp is read as if it were UTC
jwt_encode(claims, key, algorithm) ==
    [sub |-> claims.sub, username |-> claims.username, type |-> claims.type,
     exp |-> claims.exp, alg |-> algorithm, key |-> key]

\* jwt.decode raises JWTError: bad signature, algorithm not allowed, or
\* exp earlier than the current UTC second
JWTError(token, key, algorithms) ==
    \/ token.key # key
    \/ token.alg \notin algorithms
    \/ token.exp < now

\* services.py:63-69
create_token(data, expires_delta, token_type) ==
    jwt_encode([sub |-> data.sub, username |-> data.username,
                type |-> token_type, exp |-> datetime_now + expires_delta],
               SECRET_KEY, services_ALGORITHM)

\* services.py:71-73
create_access_token(data) ==
    create_token(data, timedelta_minutes(ACCESS_TOKEN_EXPIRE_MINUTES), "access")

\* services.py:75-77
create_refresh_token(data) ==
    create_token(data, timedelta_days(REFRESH_TOKEN_EXPIRE_DAYS), "refresh")

\* services.py:82-84
create_verification_token(email) ==
    create_token([sub |-> email, username |-> None],
                 timedelta_hours(VerificationHours), "email_verification")

\* services.py:119-121
create_password_reset_token(email) ==
    create_token([sub |-> email, username |-> None],
                 timedelta_minutes(PasswordResetMinutes), "password_reset")

\* A token nobody issued: well-formed claims under a signature made with
\* another key
ForgedToken ==
    [sub |-> "uid1", username |-> "alice", type |-> "access",
     exp |-> timedelta_days(365), alg |-> "HS256", key |-> "attacker"]

IssuedTokens == {i.tok : i \in issued}

\* What a caller can present: a token a handler handed out, the token the
\* last call of create_password_reset_token returned, or a forged one
Presentable ==
    IssuedTokens \cup {ForgedToken}
        \cup (IF resp.op = "reset_issue" THEN {resp.body.token} ELSE {})

Issue(toks) == issued \cup {[tok |-> t, at |-> now] : t \in toks}
Room(toks) == Cardinality(Issue(toks)) <= MaxTokens

----------------------------------------------------------------------------
(* User store: the User node class and the neomodel calls of the handlers *)

Uids == {"uid1", "uid2", "uid3"}

\* User(username=..., email=..., hashed_password=...): a fresh unique id,
\* not yet verified
User(username, email, hashed_password) ==
    [uid |-> CHOOSE u \in Uids : \A x \in users : x.uid # u,
     username |-> username, email |-> email,
     hashed_password |-> hashed_password, is_verified |-> FALSE]

\* User.nodes.get_or_none(username=...): the matching nodes (none or one)
get_or_none_username(username) == {x \in users : x.username = username}

\* User.nodes.get_or_none(email=...)
get_or_none_email(email) == {x \in users : x.email = email}

----------------------------------------------------------------------------
(* Responses *)

NoHeaders == "none"
Bearer == "WWW-Authenticate: Bearer"

HTTPException(status_code, detail, headers) ==
    [status |-> status_code, headers |-> headers, body |-> [detail |-> detail]]

Ok(status_code, body) ==
    [status |-> status_code, headers |-> NoHeaders, body |-> body]

Exchange(op, req, r) ==
    [op |-> op, req |-> req, status |-> r.status, headers |-> r.headers,
     body |-> r.body]

----------------------------------------------------------------------------
(* Mail, services.py:86-105 *)

\* services.py:86-95
send_verification_email(email, username, verification_token) ==
    [subject |-> "Activating your Murof account", recipients |-> {email},
     username |-> username, token |-> verification_token]

\* services.py:97-105
send_warning_email(email, username) ==
    [subject |-> "Murof account warning", recipients |-> {email},
     username |-> username]

----------------------------------------------------------------------------
(* POST /register, auth.py:28-61 *)

RegistrationForms ==
    [username : Usernames, email : Emails, password : RegistrationPasswords]

\* register_branch with the email looked up before the username
register_branch_email_first(form) ==
    IF get_or_none_email(form.email) # {} THEN "email_taken"
    ELSE IF get_or_none_username(form.username) # {} THEN "username_taken"
    ELSE "create"

\* register_branch without the lookup of the email
register_branch_no_email_lookup(form) ==
    IF get_or_none_username(form.username) # {} THEN "username_taken"
    ELSE "create"

\* auth.py:38 and auth.py:42: which arm of the handler runs
register_branch(form) ==
    IF get_or_none_username(form.username) # {} THEN "username_taken"
    ELSE IF get_or_none_email(form.email) # {} THEN "email_taken"
    ELSE "create"

\* auth.py:46-51
register_new_user(form) ==
    User(form.username, form.email, get_password_hash(form.password))

\* register_verification_mail with the token made for the username
register_verification_mail_for_username(form) ==
    LET user == register_new_user(form)
    IN send_verification_email(user.email, user.username,
                               create_verification_token(user.username))

\* auth.py:52-57: the mail the create arm sends
register_verification_mail(form) ==
    LET user == register_new_user(form)
    IN send_verification_email(user.email, user.username,
                               create_verification_token(user.email))

\* register_response telling the caller that the email is taken
register_response_tells_email(form) ==
    IF register_branch(form) = "username_taken"
    THEN HTTPException(400, "Username already taken", NoHeaders)
    ELSE IF register_branch(form) = "email_taken"
    THEN HTTPException(400, "Email already taken", NoHeaders)
    ELSE Ok(201, [message |-> "User registration successful, please check your email",
                  email |-> form.email])

\* auth.py:39 and auth.py:58-61
register_response(form) ==
    IF register_branch(form) = "username_taken"
    THEN HTTPException(400, "Username already taken", NoHeaders)
    ELSE Ok(201, [message |-> "User registration successful, please check your email",
                  email |-> form.email])

register_user(form) ==
    /\ Started
    /\ resp' = Exchange("register", form, register_response(form))
    /\ CASE register_branch(form) = "username_taken" ->
              /\ outbox' = <<>>
              /\ UNCHANGED <<users, issued>>
         [] register_branch(form) = "email_taken" ->
              /\ outbox' = <<send_warning_email(form.email, form.username)>>
              /\ UNCHANGED <<users, issued>>
         [] OTHER ->
              /\ Room({register_verification_mail(form).token})
              /\ users' = users \cup {register_new_user(form)}
              /\ issued' = Issue({register_verification_mail(form).token})
              /\ outbox' = <<register_verification_mail(form)>>
    /\ UNCHANGED <<inflight, environ, utcoffset, now, ticks>>

----------------------------------------------------------------------------
(* GET /verify/{token}, auth.py:64-79 and services.py:107-115 *)

\* services.py:107-115: the 401 of verify_email_token; every token the
\* codec accepts carries a sub, whatever its type
verify_email_token_rejects(token) ==
    JWTError(token, SECRET_KEY, {services_ALGORITHM}) \/ token.sub = None

\* verify_email_response refusing a user that is verified already
verify_email_response_once(token) ==
    IF verify_email_token_rejects(token)
    THEN HTTPException(401, "Invalid token", NoHeaders)
    ELSE IF get_or_none_email(token.sub) = {}
    THEN HTTPException(404, "User not found", NoHeaders)
    ELSE IF \E x \in get_or_none_email(token.sub) : x.is_verified
    THEN HTTPException(400, "Email already verified", NoHeaders)
    ELSE Ok(200, [message |-> "Email verified, you can now login"])

\* auth.py:73-79
verify_email_response(token) ==
    IF verify_email_token_rejects(token)
    THEN HTTPException(401, "Invalid token", NoHeaders)
    ELSE IF get_or_none_email(token.sub) = {}
    THEN HTTPException(404, "User not found", NoHeaders)
    ELSE Ok(200, [message |-> "Email verified, you can now login"])

\* verify_email_users flipping the flag instead of setting it
verify_email_users_toggle(token) ==
    {IF x.email = token.sub THEN [x EXCEPT !.is_verified = ~@] ELSE x :
        x \in users}

\* auth.py:77-78: user.is_verified = True; user.save()
verify_email_users(token) ==
    {IF x.email = token.sub THEN [x EXCEPT !.is_verified = TRUE] ELSE x :
        x \in users}

verify_email(token) ==
    /\ Started
    /\ resp' = Exchange("verify", token, verify_email_response(token))
    /\ users' = IF verify_email_response(token).status = 200
                THEN verify_email_users(token)
                ELSE users
    /\ outbox' = <<>>
    /\ UNCHANGED <<inflight, environ, utcoffset, now, ticks, issued>>

----------------------------------------------------------------------------
(* POST /token, auth.py:82-116 *)

LoginForms == [username : Usernames \cup Emails, password : Passwords]

\* "@" in form.username, auth.py:91
is_email(identifier) == identifier \in Emails

\* auth.py:91-95
login_user(form) ==
    IF is_email(form.username)
    THEN get_or_none_email(form.username)
    ELSE get_or_none_username(form.username)

\* login_branch without the check of is_verified
login_branch_no_verified_check(form) ==
    IF \/ login_user(form) = {}
       \/ \E user \in login_user(form) :
            ~verify_password(form.password, user.hashed_password)
    THEN "invalid_credentials"
    ELSE "tokens"

\* auth.py:97-108: which arm of the handler runs
login_branch(form) ==
    IF \/ login_user(form) = {}
       \/ \E user \in login_user(form) :
            ~verify_password(form.password, user.hashed_password)
    THEN "invalid_credentials"
    ELSE IF \E user \in login_user(form) : ~user.is_verified
    THEN "not_verified"
    ELSE "tokens"

\* auth.py:109-116
login_tokens(form) ==
    LET user == CHOOSE x \in login_user(form) : TRUE
        data == [sub |-> user.uid, username |-> user.username]
    IN [access_token |-> create_access_token(data),
        refresh_token |-> create_refresh_token(data),
        token_type |-> "bearer"]

\* login_response with a 401 of its own for an unknown identifier
login_response_tells_unknown(form) ==
    CASE login_user(form) = {} ->
            HTTPException(401, "Unknown identifier", Bearer)
      [] login_branch(form) = "invalid_credentials" ->
            HTTPException(401, "Incorrect identifier or password", Bearer)
      [] login_branch(form) = "not_verified" ->
            HTTPException(401, "Email not verified", Bearer)
      [] OTHER -> Ok(200, login_tokens(form))

\* auth.py:97-116
login_response(form) ==
    CASE login_branch(form) = "invalid_credentials" ->
            HTTPException(401, "Incorrect identifier or password", Bearer)
      [] login_branch(form) = "not_verified" ->
            HTTPException(401, "Email not verified", Bearer)
      [] OTHER -> Ok(200, login_tokens(form))

\* login_for_access_token mailing a notice to the user it logs in
login_for_access_token_notifying(form) ==
    /\ Started
    /\ resp' = Exchange("login", form, login_response(form))
    /\ IF login_response(form).status = 200
       THEN /\ Room({login_tokens(form).access_token,
                     login_tokens(form).refresh_token})
            /\ issued' = Issue({login_tokens(form).access_token,
                                login_tokens(form).refresh_token})
            /\ outbox' = <<send_warning_email(
                              (CHOOSE x \in login_user(form) : TRUE).email,
                              (CHOOSE x \in login_user(form) : TRUE).username)>>
       ELSE /\ UNCHANGED issued
            /\ outbox' = <<>>
    /\ UNCHANGED <<inflight, environ, utcoffset, now, ticks, users>>

\* auth.py:82-116
login_for_access_token(form) ==
    /\ Started
    /\ resp' = Exchange("login", form, login_response(form))
    /\ IF login_response(form).status = 200
       THEN /\ Room({login_tokens(form).access_token,
                     login_tokens(form).refresh_token})
            /\ issued' = Issue({login_tokens(form).access_token,
                                login_tokens(form).refresh_token})
       ELSE UNCHANGED issued
    /\ outbox' = <<>>
    /\ UNCHANGED <<inflight, environ, utcoffset, now, ticks, users>>

----------------------------------------------------------------------------
(* POST /refresh, auth.py:119-146 *)

\* refresh_rejects without the check of the type claim
refresh_rejects_any_type(refresh_token) ==
    \/ JWTError(refresh_token, SECRET_KEY, {auth_ALGORITHM})
    \/ refresh_token.username = None

\* auth.py:128-136: the 401 of the handler
refresh_rejects(refresh_token) ==
    \/ JWTError(refresh_token, SECRET_KEY, {auth_ALGORITHM})
    \/ refresh_token.username = None
    \/ refresh_token.type # "refresh"

\* auth.py:138-146
refresh_tokens(refresh_token) ==
    [access_token |-> create_access_token([sub |-> refresh_token.sub,
                                           username |-> refresh_token.username]),
     refresh_token |-> refresh_token,
     token_type |-> "bearer"]

\* auth.py:128-146
refresh_response(refresh_token) ==
    IF refresh_rejects(refresh_token)
    THEN HTTPException(401, "Invalid refresh token", NoHeaders)
    ELSE Ok(200, refresh_tokens(refresh_token))

refresh_access_token(refresh_token) ==
    /\ Started
    /\ resp' = Exchange("refresh", refresh_token, refresh_response(refresh_token))
    /\ IF refresh_response(refresh_token).status = 200
       THEN /\ Room({refresh_tokens(refresh_token).access_token})
            /\ issued' = Issue({refresh_tokens(refresh_token).access_token})
       ELSE UNCHANGED issued
    /\ outbox' = <<>>
    /\ UNCHANGED <<inflight, environ, utcoffset, now, ticks, users>>

----------------------------------------------------------------------------
(* GET /me, services.py:150-168 and auth.py:149-154 *)

\* services.py:156-163: the token part of get_current_user
get_current_user_rejects(token) ==
    \/ JWTError(token, SECRET_KEY, {services_ALGORITHM})
    \/ token.username = None

\* services.py:150-168 and auth.py:149-154
read_users_me_response(token) ==
    IF \/ get_current_user_rejects(token)
       \/ get_or_none_username(token.username) = {}
    THEN HTTPException(401, "Could not validate credentials", Bearer)
    ELSE LET current_user == CHOOSE x \in get_or_none_username(token.username) : TRUE
         IN Ok(200, [username |-> current_user.username,
                     email |-> current_user.email])

read_users_me(token) ==
    /\ Started
    /\ resp' = Exchange("me", token, read_users_me_response(token))
    /\ outbox' = <<>>
    /\ UNCHANGED <<inflight, environ, utcoffset, now, ticks, users, issued>>

----------------------------------------------------------------------------
(* Password-reset tokens, services.py:119-146 *)

\* services.py:138-146: the 401 of verify_password_reset_token
verify_password_reset_token_rejects(token) ==
    JWTError(token, SECRET_KEY, {services_ALGORITHM}) \/ token.sub = None

\* services.py:138-146: the sub, or the 401
verify_password_reset_token_response(token) ==
    IF verify_password_reset_token_rejects(token)
    THEN HTTPException(401, "Invalid token", NoHeaders)
    ELSE Ok(200, [sub |-> token.sub])

\* a call of create_password_reset_token(email): no handler calls it, its
\* result goes to the caller and nowhere else
request_password_reset(email) ==
    /\ Started
    /\ resp' = Exchange("reset_issue", email,
                        Ok(200, [token |-> create_password_reset_token(email),
                                 at |-> now]))
    /\ outbox' = <<>>
    /\ UNCHANGED <<inflight, environ, utcoffset, now, ticks, users, issued>>

\* a call of verify_password_reset_token(token)
verify_password_reset(token) ==
    /\ Started
    /\ resp' = Exchange("reset_verify", token,
                        verify_password_reset_token_response(token))
    /\ outbox' = <<>>
    /\ UNCHANGED <<inflight, environ, utcoffset, now, ticks, users, issued>>

----------------------------------------------------------------------------
(* The clock *)

TickSteps ==
    {1, timedelta_minutes(DefaultAccessMinutes), timedelta_days(DefaultRefreshDays)}

Tick(d) ==
    /\ ticks < MaxTicks
    /\ now' = now + d
    /\ ticks' = ticks + 1
    /\ UNCHANGED <<inflight, environ, utcoffset, users, issued, outbox, resp>>

----------------------------------------------------------------------------
(* The system *)

NoExchange ==
    [op |-> "none", req |-> None, status |-> 0, headers |-> NoHeaders,
     body |-> [detail |-> None]]

\* No register request is suspended
Requests == 1 .. MaxInflight
NoForm == [username |-> None, email |-> None, password |-> None]
Idle == [pc |-> "idle", form |-> NoForm]

Init ==
    /\ environ \in Environs
    /\ utcoffset \in UtcOffsets
    /\ now = 0
    /\ ticks = 0
    /\ users = {}
    /\ issued = {}
    /\ outbox = <<>>
    /\ resp = NoExchange
    /\ inflight = [r \in Requests |-> Idle]

Next ==
    \/ \E form \in RegistrationForms : register_user(form)
    \/ \E token \in Presentable : verify_email(token)
    \/ \E form \in LoginForms : login_for_access_token(form)
    \/ \E token \in Presentable : refresh_access_token(token)
    \/ \E token \in Presentable : read_users_me(token)
    \/ \E email \in Emails : request_password_reset(email)
    \/ \E token \in Presentable : verify_password_reset(token)
    \/ \E d \in TickSteps : Tick(d)

Spec == Init /\ [][Next]_vars

----------------------------------------------------------------------------
(* A mail dispatch that fails, services.py:94-95 and 104-105 *)

\* The answer of the framework to an exception the handler does not catch
InternalServerError ==
    [status |-> 500, headers |-> NoHeaders,
     body |-> [detail |-> "Internal Server Error"]]

\* auth.py:28-61 when fm.send_message raises: register_user has no
\* try/except around either send, so the exception leaves the handler after
\* the save of the create arm, and the token made at auth.py:51 is dropped
register_user_mail_fails(form) ==
    /\ Started
    /\ register_branch(form) # "username_taken"
    /\ resp' = Exchange("register", form, InternalServerError)
    /\ outbox' = <<>>
    /\ users' = IF register_branch(form) = "create"
                THEN users \cup {register_new_user(form)}
                ELSE users
    /\ UNCHANGED <<inflight, environ, utcoffset, now, ticks, issued>>

NextMailFailure ==
    \/ Next
    \/ \E form \in RegistrationForms : register_user_mail_fails(form)

SpecMailFailure == Init /\ [][NextMailFailure]_vars

----------------------------------------------------------------------------
(* Register requests in flight together: register_user suspended at each
   await of auth.py:37-57 *)

\* The save of a node whose username or email another node holds: never
save_conflicts_never(user) == FALSE

\* User.save() against the unique username and email of the store: the
\* check and the write are one step of the store
save_conflicts(user) ==
    \E x \in users : x.username = user.username \/ x.email = user.email

\* A request arrives and is given the lowest free slot; the handler runs to
\* its first await, the username lookup of auth.py:38
register_begin(r, form) ==
    /\ Started
    /\ inflight[r].pc = "idle"
    /\ \A q \in Requests : q < r => inflight[q].pc # "idle"
    /\ inflight' = [inflight EXCEPT ![r] = [pc |-> "lookup_username",
                                            form |-> form]]
    /\ UNCHANGED <<environ, utcoffset, now, ticks, users, issued, outbox, resp>>

\* auth.py:38-39
register_lookup_username(r) ==
    LET form == inflight[r].form
    IN /\ inflight[r].pc = "lookup_username"
       /\ IF get_or_none_username(form.username) # {}
          THEN /\ resp' = Exchange("register", form,
                             HTTPException(400, "Username already taken",
                                           NoHeaders))
               /\ outbox' = <<>>
               /\ inflight' = [inflight EXCEPT ![r] = Idle]
          ELSE /\ inflight' = [inflight EXCEPT ![r].pc = "lookup_email"]
               /\ UNCHANGED <<outbox, resp>>
       /\ UNCHANGED <<environ, utcoffset, now, ticks, users, issued>>

\* auth.py:42-45
register_lookup_email(r) ==
    LET form == inflight[r].form
    IN /\ inflight[r].pc = "lookup_email"
       /\ inflight' = [inflight EXCEPT ![r].pc =
                          IF get_or_none_email(form.email) # {}
                          THEN "send_warning" ELSE "save"]
       /\ UNCHANGED <<environ, utcoffset, now, ticks, users, issued, outbox,
                      resp>>

\* auth.py:43 and auth.py:58-61
register_send_warning(r) ==
    LET form == inflight[r].form
    IN /\ inflight[r].pc = "send_warning"
       /\ outbox' = <<send_warning_email(form.email, form.username)>>
       /\ resp' = Exchange("register", form,
                     Ok(201, [message |-> "User registration successful, please check your email",
                              email |-> form.email]))
       /\ inflight' = [inflight EXCEPT ![r] = Idle]
       /\ UNCHANGED <<environ, utcoffset, now, ticks, users, issued>>

\* auth.py:46-50: the save raises when the store refuses the node, and the
\* handler does not catch it
register_save(r) ==
    LET form == inflight[r].form
    IN /\ inflight[r].pc = "save"
       /\ IF save_conflicts(register_new_user(form))
          THEN /\ resp' = Exchange("register", form, InternalServerError)
               /\ outbox' = <<>>
               /\ inflight' = [inflight EXCEPT ![r] = Idle]
               /\ UNCHANGED users
          ELSE /\ users' = users \cup {register_new_user(form)}
               /\ inflight' = [inflight EXCEPT ![r].pc = "send_verification"]
               /\ UNCHANGED <<outbox, resp>>
       /\ UNCHANGED <<environ, utcoffset, now, ticks, issued>>

\* auth.py:51-61
register_send_verification(r) ==
    LET form == inflight[r].form
        mail == send_verification_email(form.email, form.username,
                                        create_verification_token(form.email))
    IN /\ inflight[r].pc = "send_verification"
       /\ Room({mail.token})
       /\ issued' = Issue({mail.token})
       /\ outbox' = <<mail>>
       /\ resp' = Exchange("register", form,
                     Ok(201, [message |-> "User registration successful, please check your email",
                              email |-> form.email]))
       /\ inflight' = [inflight EXCEPT ![r] = Idle]
       /\ UNCHANGED <<environ, utcoffset, now, ticks, users>>

NextConcurrent ==
    \/ \E r \in Requests, form \in RegistrationForms : register_begin(r, form)
    \/ \E r \in Requests : register_lookup_username(r)
    \/ \E r \in Requests : register_lookup_email(r)
    \/ \E r \in Requests : register_send_warning(r)
    \/ \E r \in Requests : register_save(r)
    \/ \E r \in Requests : register_send_verification(r)

SpecConcurrent == Init /\ [][NextConcurrent]_vars

----------------------------------------------------------------------------
(* Token kinds and the operation that requires each *)

Kinds == {"access", "refresh", "email_verification", "password_reset"}
TokenOps == {"me", "refresh", "verify", "reset_verify"}

RequiredKind(op) ==
    CASE op = "me" -> "access"
      [] op = "refresh" -> "refresh"
      [] op = "verify" -> "email_verification"
      [] op = "reset_verify" -> "password_reset"

\* The token part of the operation that requires kind: whether it turns
\* the token away
Rejects(kind, token) ==
    CASE kind = "access" -> get_current_user_rejects(token)
      [] kind = "refresh" -> refresh_rejects(token)
      [] kind = "email_verification" -> verify_email_token_rejects(token)
      [] kind = "password_reset" -> verify_password_reset_token_rejects(token)

\* The lifetimes the specification states, in seconds
StatedLifetime(kind) ==
    CASE kind = "access" -> 30 * 60
      [] kind = "refresh" -> 7 * 86400
      [] kind = "email_verification" -> 24 * 3600
      [] kind = "password_reset" -> 15 * 60

\* Every token handed out, with its issuance time, the returned
\* password-reset token included
Issuances ==
    issued \cup (IF resp.op = "reset_issue"
                 THEN {[tok |-> resp.body.token, at |-> resp.body.at]}
                 ELSE {})

Unexpired(token) == ~(token.exp < now)

----------------------------------------------------------------------------
(* C1 *)

\* C1: a token issued with one kind, presented to the operation that
\* requires another kind, is rejected (the operation does not succeed),
\* even before the token expires.
C1_WrongKindRejected ==
    (/\ resp.op \in TokenOps
     /\ resp.req.key = SECRET_KEY
     /\ resp.req.type # RequiredKind(resp.op))
        => resp.status # 200

----------------------------------------------------------------------------
(* C2 *)

\* C2: get_current_user returns a user only for an unexpired access-kind
\* token whose username names an existing user; every other token gets the
\* 401 "Could not validate credentials" response.
C2_CurrentUserNeedsAccessToken ==
    [][LET token == resp'.req IN
          (/\ resp'.op = "me"
           /\ read_users_me(token)
           /\ ~(/\ token.key = SECRET_KEY
                /\ token.type = "access"
                /\ Unexpired(token)
                /\ \E x \in users : x.username = token.username))
            => resp' = Exchange("me", token,
                         HTTPException(401, "Could not validate credentials",
                                       Bearer))]_vars

----------------------------------------------------------------------------
(* C3 *)

\* C3: refresh called with a token whose kind is not refresh (an unexpired
\* access token included) answers 401 "Invalid refresh token" and issues no
\* access token.
C3_RefreshRejectsOtherKinds ==
    [][LET token == resp'.req IN
          (/\ resp'.op = "refresh"
           /\ refresh_access_token(token)
           /\ token.type # "refresh")
            => /\ resp' = Exchange("refresh", token,
                            HTTPException(401, "Invalid refresh token", NoHeaders))
               /\ issued' = issued]_vars

\* An unexpired access token that login issued was presented to refresh and
\* was turned away.
C3_Witness ==
    /\ resp.op = "refresh"
    /\ resp.req \in IssuedTokens
    /\ resp.req.type = "access"
    /\ Unexpired(resp.req)
    /\ resp.status = 401
    /\ resp.body.detail = "Invalid refresh token"

----------------------------------------------------------------------------
(* C4 *)

\* C4: a token issued with kind K is accepted by the operation for K at its
\* issuance time and turned away at every time later than issuance time plus
\* the lifetime of K (access 30 min, refresh 7 days, email_verification 24 h,
\* password_reset 15 min).
C4_LifetimeExact ==
    \A i \in Issuances :
        /\ now = i.at => ~Rejects(i.tok.type, i.tok)
        /\ now > i.at + StatedLifetime(i.tok.type) => Rejects(i.tok.type, i.tok)

----------------------------------------------------------------------------
(* C5 *)

\* The users a login identifier resolves to
Resolves(identifier) ==
    {x \in users : x.username = identifier \/ x.email = identifier}

\* C5: login with an identifier that resolves to an existing user and with
\* that user's password, while the user is not verified, answers 401 "Email
\* not verified" and issues no token.
C5_UnverifiedLoginRefused ==
    [][LET form == resp'.req IN
          (/\ resp'.op = "login"
           /\ login_for_access_token(form)
           /\ \E x \in Resolves(form.username) :
                /\ x.hashed_password = get_password_hash(form.password)
                /\ ~x.is_verified)
            => /\ resp' = Exchange("login", form,
                            HTTPException(401, "Email not verified", Bearer))
               /\ issued' = issued]_vars

\* An unverified user logged in with the right password and got the 401
\* "Email not verified".
C5_Witness ==
    /\ resp.op = "login"
    /\ \E x \in Resolves(resp.req.username) :
          /\ x.hashed_password = get_password_hash(resp.req.password)
          /\ ~x.is_verified
    /\ resp.status = 401
    /\ resp.body.detail = "Email not verified"

----------------------------------------------------------------------------
(* C6 *)

\* C6: a login whose identifier matches no user and a login with an existing
\* user's identifier and a wrong password get the same response (status,
\* detail, headers), whatever the verified flag of that user.
C6_LoginFailuresIdentical ==
    \A f1, f2 \in LoginForms :
        (/\ Resolves(f1.username) = {}
         /\ \E x \in Resolves(f2.username) :
              x.hashed_password # get_password_hash(f2.password))
          => login_response(f1) = login_response(f2)

\* A login with a wrong password for an existing user was answered, while
\* another identifier matches no user.
C6_Witness ==
    /\ resp.op = "login"
    /\ \E x \in Resolves(resp.req.username) :
          x.hashed_password # get_password_hash(resp.req.password)
    /\ \E f \in LoginForms : Resolves(f.username) = {}
    /\ resp.status = 401
    /\ resp.body.detail = "Incorrect identifier or password"
    /\ resp.headers = Bearer

----------------------------------------------------------------------------
(* C7 *)

UsernameHeld(form) == \E x \in users : x.username = form.username
EmailHeld(form) == \E x \in users : x.email = form.email

\* C7: for registrations with an unused username, the response is the same
\* (status, headers, message, the submitted email echoed) whether the
\* submitted email is held by a user or not.
C7_RegisterResponseHidesEmail ==
    \A f1, f2 \in RegistrationForms :
        (/\ ~UsernameHeld(f1) /\ EmailHeld(f1)
         /\ ~UsernameHeld(f2) /\ ~EmailHeld(f2))
          => /\ register_response(f1).status = register_response(f2).status
             /\ register_response(f1).headers = register_response(f2).headers
             /\ register_response(f1).body =
                  [register_response(f2).body EXCEPT !.email = f1.email]
             /\ register_response(f2).body.email = f2.email

\* A registration with an unused username and a held email was answered
\* with the success message, while another email is still free.
C7_Witness ==
    /\ resp.op = "register"
    /\ resp.status = 201
    /\ Len(outbox) = 1
    /\ outbox[1].subject = "Murof account warning"
    /\ ~UsernameHeld(resp.req)
    /\ \E f \in RegistrationForms : ~UsernameHeld(f) /\ ~EmailHeld(f)

----------------------------------------------------------------------------
(* C8 *)

\* C8: a registration with an unused username and an email a user holds
\* creates and changes no user, issues no token and sends one warning mail,
\* to that email.
C8_EmailTakenOnlyWarns ==
    [][LET form == resp'.req IN
          (/\ resp'.op = "register"
           /\ register_user(form)
           /\ ~UsernameHeld(form)
           /\ EmailHeld(form))
            => /\ users' = users
               /\ issued' = issued
               /\ Len(outbox') = 1
               /\ outbox'[1].subject = "Murof account warning"
               /\ outbox'[1].recipients = {form.email}]_vars

\* A registration met a held email: one warning mail to that email, and
\* the user that holds it is the only one.
C8_Witness ==
    /\ resp.op = "register"
    /\ resp.status = 201
    /\ ~UsernameHeld(resp.req)
    /\ EmailHeld(resp.req)
    /\ Len(outbox) = 1
    /\ outbox[1].subject = "Murof account warning"
    /\ outbox[1].recipients = {resp.req.email}

----------------------------------------------------------------------------
(* C9 *)

\* C9: a registration with a username a user holds answers 400 "Username
\* already taken", whether its email is held or not, and creates and changes
\* no user, issues no token and sends no mail.
C9_UsernameTakenRefused ==
    [][LET form == resp'.req IN
          (/\ resp'.op = "register"
           /\ register_user(form)
           /\ UsernameHeld(form))
            => /\ resp' = Exchange("register", form,
                            HTTPException(400, "Username already taken", NoHeaders))
               /\ users' = users
               /\ issued' = issued
               /\ outbox' = <<>>]_vars

\* A registration with a held username and a held email was refused.
C9_Witness ==
    /\ resp.op = "register"
    /\ UsernameHeld(resp.req)
    /\ EmailHeld(resp.req)
    /\ resp.status = 400
    /\ resp.body.detail = "Username already taken"
    /\ outbox = <<>>

----------------------------------------------------------------------------
(* C10 *)

\* C10: a registration with a username and an email no user holds answers
\* 201, adds one user with that username and email and is_verified false,
\* and sends one verification mail to that email with an email_verification
\* token whose sub is that email and which verify_email_token accepts.
C10_RegistrationCreatesUser ==
    [][LET form == resp'.req IN
          (/\ resp'.op = "register"
           /\ register_user(form)
           /\ ~UsernameHeld(form)
           /\ ~EmailHeld(form))
            => /\ resp'.status = 201
               /\ resp'.body.email = form.email
               /\ \E x \in users' \ users :
                    /\ users' = users \cup {x}
                    /\ x.username = form.username
                    /\ x.email = form.email
                    /\ ~x.is_verified
               /\ Len(outbox') = 1
               /\ outbox'[1].subject = "Activating your Murof account"
               /\ outbox'[1].recipients = {form.email}
               /\ outbox'[1].token.type = "email_verification"
               /\ outbox'[1].token.sub = form.email
               /\ ~verify_email_token_rejects(outbox'[1].token)
               /\ outbox'[1].token \in {i.tok : i \in issued'}]_vars

\* A registration created the second user of the store and mailed the
\* verification token.
C10_Witness ==
    /\ resp.op = "register"
    /\ resp.status = 201
    /\ Cardinality(users) = 2
    /\ \E x \in users :
          /\ x.username = resp.req.username
          /\ x.email = resp.req.email
          /\ ~x.is_verified
    /\ Len(outbox) = 1
    /\ outbox[1].subject = "Activating your Murof account"
    /\ outbox[1].token.sub = resp.req.email

----------------------------------------------------------------------------
(* C11 *)

\* C11: verification is idempotent. An unexpired email_verification token
\* of an existing user is answered with success; once a verify with it has
\* succeeded the user is verified, and as long as the token is unexpired a
\* further verify with it succeeds again and leaves every user as it is.
C11_VerifyIdempotent ==
    /\ \A t \in IssuedTokens :
         (/\ t.type = "email_verification"
          /\ Unexpired(t)
          /\ \E x \in users : x.email = t.sub)
           => verify_email_response(t) =
                Ok(200, [message |-> "Email verified, you can now login"])
    /\ (/\ resp.op = "verify"
        /\ resp.status = 200
        /\ resp.req.type = "email_verification"
        /\ Unexpired(resp.req))
         => /\ \E x \in users : x.email = resp.req.sub /\ x.is_verified
            /\ verify_email_response(resp.req) =
                 Ok(200, [message |-> "Email verified, you can now login"])
            /\ verify_email_users(resp.req) = users

\* A verify with a verification token succeeded, time has passed, and the
\* token is still unexpired: the second verify can be made.
C11_Witness ==
    /\ resp.op = "verify"
    /\ resp.status = 200
    /\ resp.req.type = "email_verification"
    /\ Unexpired(resp.req)
    /\ ticks = 1
    /\ \E x \in users : x.email = resp.req.sub /\ x.is_verified
    /\ \E x \in users : ~x.is_verified

----------------------------------------------------------------------------
(* C12 *)

\* C12: a successful refresh returns a new access token with the sub and
\* the username of the presented refresh token, expiring at the time of the
\* refresh call plus the access lifetime, together with the presented
\* refresh token itself.
C12_RefreshReturnsFreshAccess ==
    (resp.op = "refresh" /\ resp.status = 200)
      => /\ resp.body.access_token.type = "access"
         /\ resp.body.access_token.sub = resp.req.sub
         /\ resp.body.access_token.username = resp.req.username
         /\ resp.body.refresh_token = resp.req
         /\ \E i \in issued :
              /\ i.tok = resp.body.access_token
              /\ i.tok.exp = i.at + StatedLifetime("access")

----------------------------------------------------------------------------
(* C13 *)

\* C13: tokens are stateless. A refresh call that presents a refresh token
\* issued by login, made before the token's expiry, is accepted, whatever
\* was done with the token or with the store before.
C13_RefreshTokenReusable ==
    (/\ resp.op = "refresh"
     /\ resp.req \in IssuedTokens
     /\ resp.req.type = "refresh"
     /\ Unexpired(resp.req))
      => resp.status = 200

----------------------------------------------------------------------------
(* C15 *)

\* C15: every access or refresh token issued carries the uid and the
\* username of one stored user who is verified; a login answered with
\* tokens named a stored, verified user with the password presented; and a
\* refresh answered with tokens copied sub and username from its request.
C15_TokensNameVerifiedUsers ==
    /\ \A t \in IssuedTokens :
         t.type \in {"access", "refresh"}
           => \E x \in users :
                /\ x.uid = t.sub
                /\ x.username = t.username
                /\ x.is_verified
    /\ (resp.op = "login" /\ resp.status = 200)
         => \E x \in Resolves(resp.req.username) :
              /\ verify_password(resp.req.password, x.hashed_password)
              /\ x.is_verified
              /\ resp.body.access_token.sub = x.uid
              /\ resp.body.access_token.username = x.username
              /\ resp.body.refresh_token.sub = x.uid
              /\ resp.body.refresh_token.username = x.username
    /\ (resp.op = "refresh" /\ resp.status = 200)
         => /\ resp.body.access_token.sub = resp.req.sub
            /\ resp.body.access_token.username = resp.req.username

\* A refresh handed out an access token while the store holds a verified
\* user and an unverified one.
C15_Witness ==
    /\ resp.op = "refresh"
    /\ resp.status = 200
    /\ resp.body.access_token \in IssuedTokens
    /\ \E x \in users : x.is_verified
    /\ \E x \in users : ~x.is_verified

----------------------------------------------------------------------------
(* C16 *)

\* C16: under every configuration the process starts with, ALGORITHM unset
\* included, an unexpired refresh token that was issued is accepted by
\* refresh and an unexpired access token that was issued is accepted by
\* get_current_user.
C16_IssuedTokensVerifyUnderEveryConfig ==
    \A t \in IssuedTokens :
        Unexpired(t)
          => /\ t.type = "refresh" => ~refresh_rejects(t)
             /\ t.type = "access" => ~get_current_user_rejects(t)

----------------------------------------------------------------------------
(* C18 *)

\* C18: every step keeps every user, with its uid, username, email and
\* password hash, and keeps a verified user verified; the store changes
\* only by a registration adding one unverified user or by a verification
\* setting is_verified of existing users to true.
C18_UsersStable ==
    [][users' # users
         => /\ \A x \in users :
                 \E y \in users' :
                    /\ y.uid = x.uid
                    /\ y.username = x.username
                    /\ y.email = x.email
                    /\ y.hashed_password = x.hashed_password
                    /\ x.is_verified => y.is_verified
            /\ Cardinality(users') >= Cardinality(users)
            /\ \/ /\ resp'.op = "register"
                  /\ \E y \in users' \ users :
                       users' = users \cup {y} /\ ~y.is_verified
               \/ /\ resp'.op = "verify"
                  /\ \E x \in users :
                       /\ ~x.is_verified
                       /\ users' = (users \ {x})
                                     \cup {[x EXCEPT !.is_verified = TRUE]}]_vars

\* A second verify with the same token was answered after the first had
\* verified the user, and the user is verified.
C18_Witness ==
    /\ resp.op = "verify"
    /\ resp.status = 200
    /\ ticks = 1
    /\ Cardinality(users) = 2
    /\ \E x \in users : x.email = resp.req.sub /\ x.is_verified

----------------------------------------------------------------------------
(* C19 *)

\* What refresh answers, from the token, the environment and the UTC time
RefreshAccepts(token, env, time) ==
    /\ token.key = SECRET_KEY
    /\ token.alg = env.ALGORITHM
    /\ ~(token.exp < time)
    /\ token.username # None
    /\ token.type = "refresh"

\* C19: a login, a refresh and a GET /me, answered 200 or 401, leave users
\* as it is and send no mail; and the status of a refresh is a function of
\* the presented token, the environment and the time alone.
C19_ReadOnlyOperations ==
    [][LET req == resp'.req IN
          (\/ resp'.op = "login" /\ login_for_access_token(req)
           \/ resp'.op = "refresh" /\ refresh_access_token(req)
           \/ resp'.op = "me" /\ read_users_me(req))
            => /\ users' = users
               /\ outbox' = <<>>
               /\ resp'.op = "refresh"
                    => resp'.status =
                         IF RefreshAccepts(req, environ, now)
                         THEN 200 ELSE 401]_vars

\* A login answered with tokens, a store of two users and no mail sent.
C19_Witness ==
    /\ resp.op = "login"
    /\ resp.status = 200
    /\ Cardinality(users) = 2
    /\ outbox = <<>>

----------------------------------------------------------------------------
(* C20 *)

\* C20: with a lifetime setting absent from the environment the process
\* starts, and the access lifetime is 30 minutes and the refresh lifetime
\* 7 days where the setting is absent.
C20_StartsWithDefaultLifetimes ==
    (\/ environ.ACCESS_TOKEN_EXPIRE_MINUTES = None
     \/ environ.REFRESH_TOKEN_EXPIRE_DAYS = None)
      => /\ Started
         /\ environ.ACCESS_TOKEN_EXPIRE_MINUTES = None
              => ACCESS_TOKEN_EXPIRE_MINUTES = DefaultAccessMinutes
         /\ environ.REFRESH_TOKEN_EXPIRE_DAYS = None
              => REFRESH_TOKEN_EXPIRE_DAYS = DefaultRefreshDays

----------------------------------------------------------------------------
(* C14 *)

\* C14: whatever the interleaving of the register requests in flight, no
\* two users of the store have the same username and no two have the same
\* email.
C14_UniqueUnderInterleaving ==
    \A x, y \in users :
        (x.username = y.username \/ x.email = y.email) => x = y

\* A request passed both lookups and is suspended at its save while another
\* request has stored its username or its email since.
C14_Witness ==
    \E r \in Requests :
        /\ inflight[r].pc = "save"
        /\ \E x \in users :
              \/ x.username = inflight[r].form.username
              \/ x.email = inflight[r].form.email

----------------------------------------------------------------------------
(* C17 *)

\* C17: a registration with a username and an email no user holds stores
\* the user and is answered 201, whether the mail dispatch succeeds or
\* fails.
C17_MailFailureKeepsOutcome ==
    [][LET form == resp'.req IN
          (/\ resp'.op = "register"
           /\ register_user(form) \/ register_user_mail_fails(form)
           /\ ~UsernameHeld(form)
           /\ ~EmailHeld(form))
            => /\ \E x \in users' :
                    x.username = form.username /\ x.email = form.email
               /\ resp'.status = 201]_vars

====
